---- MODULE Spec2Model ----
(***************************************************************************)
(* A model of rosidl_pycommon/__init__.py: the naming normalizer, the      *)
(* staleness oracle, the template expander (expand_template and the nested *)
(* include callable _expand_template) and the generation orchestrator      *)
(* (generate_files).                                                       *)
(*                                                                         *)
(* Paths are sequences of path components, strings that the code inspects  *)
(* character by character are sequences of one-character strings.          *)
(***************************************************************************)
EXTENDS Integers, Sequences, FiniteSets, TLC

VARIABLES
    cv,                    \* harness of convert_camel_case_to_lower_case_underscore
    nm,                    \* harness of get_newest_modification_time
    pc,                    \* position of the running call ("idle" when none)
    template_prefix_path,  \* the module-wide search path (line 145)
    interpreter,           \* the module-wide engine handle (line 157): an index into engines, or None
    engines,               \* every engine instance created so far: "live" or "shutdown"
    fs,                    \* the output files on disk: path -> [content, mtime]
    now,                   \* the wall clock the file system stamps writes with
    et,                    \* the frame of the running expand_template call
    inc,                   \* the frames of the active _expand_template calls, innermost last
    output,                \* the StringIO sink of the running expansion
    events,                \* the hook and render events of the running expansion, in order
    log,                   \* what the running top-level call printed to sys.stderr
    gf,                    \* the frame of the running generate_files call
    ncalls                 \* top-level calls started so far

vars == <<cv, nm, pc, template_prefix_path, interpreter, engines, fs, now, et, inc,
          output, events, log, gf, ncalls>>

mainVars == <<pc, template_prefix_path, interpreter, engines, fs, now, et, inc,
              output, events, log, gf, ncalls>>

\* Python's None, for the optional timestamps and handles (all of which are >= 0).
None == -1

-----------------------------------------------------------------------------
(* Bounds of the model *)

MaxLen == 4      \* longest identifier given to the naming normalizer
MaxDeps == 3     \* longest target_dependencies list given to the staleness oracle
MaxTime == 2     \* last tick of the wall clock
MaxCalls == 2    \* top-level calls of one process

-----------------------------------------------------------------------------
(* Sequences *)

RECURSIVE SeqsUpTo(_, _)
SeqsUpTo(S, n) ==
    IF n = 0 THEN {<<>>}
    ELSE LET shorter == SeqsUpTo(S, n - 1)
         IN  shorter \cup {Append(s, x) : s \in {t \in shorter : Len(t) = n - 1}, x \in S}

Last(s) == s[Len(s)]

Front(s) == SubSeq(s, 1, Len(s) - 1)

-----------------------------------------------------------------------------
(* convert_camel_case_to_lower_case_underscore, lines 45-52 *)

UpperChars == {"A", "B"}
LowerChars == {"a", "b"}
DigitChars == {"1"}
Alphabet == UpperChars \cup LowerChars \cup DigitChars \cup {"_"}

\* str.lower() on one character
LowerChar(c) == CASE c = "A" -> "a" [] c = "B" -> "b" [] OTHER -> c

\* the end of the greedy run [a-z]+ that starts at position i
RECURSIVE LowerRunEnd(_, _)
LowerRunEnd(s, i) ==
    IF i + 1 <= Len(s) /\ s[i + 1] \in LowerChars THEN LowerRunEnd(s, i + 1) ELSE i

\* re.sub('(.)([A-Z][a-z]+)', r'\1_\2', value) from position i on: leftmost,
\* non-overlapping matches, the scan resuming after each match
RECURSIVE SubUpperRun(_, _)
SubUpperRun(s, i) ==
    IF i > Len(s) THEN <<>>
    ELSE IF i + 2 <= Len(s) /\ s[i + 1] \in UpperChars /\ s[i + 2] \in LowerChars
         THEN LET e == LowerRunEnd(s, i + 2)
              IN  <<s[i], "_">> \o SubSeq(s, i + 1, e) \o SubUpperRun(s, e + 1)
         ELSE <<s[i]>> \o SubUpperRun(s, i + 1)

\* re.sub('([a-z0-9])([A-Z])', r'\1_\2', value) from position i on
RECURSIVE SubLowerUpper(_, _)
SubLowerUpper(s, i) ==
    IF i > Len(s) THEN <<>>
    ELSE IF i + 1 <= Len(s) /\ s[i] \in (LowerChars \cup DigitChars) /\ s[i + 1] \in UpperChars
         THEN <<s[i], "_", s[i + 1]>> \o SubLowerUpper(s, i + 2)
         ELSE <<s[i]>> \o SubLowerUpper(s, i + 1)

\* a plausible slip: the result is returned without .lower()
Lower_Omitted(s) == s

\* value.lower()
Lower(s) == [i \in 1..Len(s) |-> LowerChar(s[i])]

convert_camel_case_to_lower_case_underscore(value) ==
    Lower(SubLowerUpper(SubUpperRun(value, 1), 1))

CvIdle == [pc |-> "idle", value |-> <<>>, once |-> <<>>, twice |-> <<>>]

InitConvert0 == cv \in {[pc |-> "start", value |-> v, once |-> <<>>, twice |-> <<>>] :
                        v \in SeqsUpTo(Alphabet, MaxLen)}

\* the normalizer applied to the input
ConvertOnce ==
    /\ cv.pc = "start"
    /\ cv' = [cv EXCEPT !.pc = "once",
                        !.once = convert_camel_case_to_lower_case_underscore(cv.value)]
    /\ UNCHANGED <<nm, mainVars>>

\* the normalizer applied to its own result
ConvertTwice ==
    /\ cv.pc = "once"
    /\ cv' = [cv EXCEPT !.pc = "twice",
                        !.twice = convert_camel_case_to_lower_case_underscore(cv.once)]
    /\ UNCHANGED <<nm, mainVars>>

-----------------------------------------------------------------------------
(* get_newest_modification_time, lines 60-68 *)

DepFiles == {"d1", "d2", "d3"}

\* a plausible slip: the comparison reversed, keeping the oldest timestamp
NewerOf_Reversed(newest, ts) == IF newest = None \/ ts < newest THEN ts ELSE newest

\* lines 66-67: the running maximum
NewerOf(newest, ts) == IF newest = None \/ ts > newest THEN ts ELSE newest

\* the loop of lines 64-67 from entry i on; mtimes maps each existing file to its
\* modification time, os.path.getmtime raises for a file that is not there
RECURSIVE NewestLoop(_, _, _, _)
NewestLoop(deps, i, newest, mtimes) ==
    IF i > Len(deps) THEN [exc |-> "none", value |-> newest]
    ELSE IF deps[i] \notin DOMAIN mtimes
         THEN [exc |-> "FileNotFoundError", value |-> None]
         ELSE NewestLoop(deps, i + 1, NewerOf(newest, mtimes[deps[i]]), mtimes)

get_newest_modification_time(target_dependencies, mtimes) ==
    NewestLoop(target_dependencies, 1, None, mtimes)

NmIdle == [pc |-> "idle", deps |-> <<>>, mtimes |-> <<>>, result |-> [exc |-> "none", value |-> None]]

\* every way of having some of the files exist, each with a modification time
MtimeMaps(files) ==
    UNION {[present -> 0..MaxTime] : present \in SUBSET files}

InitNewest0 == nm \in {[pc |-> "start", deps |-> d, mtimes |-> m,
                        result |-> [exc |-> "none", value |-> None]] :
                       d \in SeqsUpTo(DepFiles, MaxDeps), m \in MtimeMaps(DepFiles)}

NewestCall ==
    /\ nm.pc = "start"
    /\ nm' = [nm EXCEPT !.pc = "done",
                        !.result = get_newest_modification_time(nm.deps, nm.mtimes)]
    /\ UNCHANGED <<cv, mainVars>>

-----------------------------------------------------------------------------
(* The process at rest: the module just imported *)

\* an absent optional path argument (template_basepath=None)
NoPath == <<"<None>">>

EmptyFS == [p \in {} |-> [content |-> <<>>, mtime |-> 0]]

EtIdle == [active |-> FALSE]
GfIdle == [active |-> FALSE]

InitMain ==
    /\ pc = "idle"
    /\ template_prefix_path = <<>>
    /\ interpreter = None
    /\ engines = <<>>
    /\ fs = EmptyFS
    /\ now = 1
    /\ et = EtIdle
    /\ inc = <<>>
    /\ output = <<>>
    /\ events = <<>>
    /\ log = <<>>
    /\ gf = GfIdle
    /\ ncalls = 0

-----------------------------------------------------------------------------
(* The template files on disk (read-only while the process runs) *)

T1 == <<"t1">>
T2 == <<"t2">>

\* what a template does when the engine renders it, item by item
Text(t) == [op |-> "text", arg |-> <<t>>]
Var(k) == [op |-> "var", arg |-> <<k>>]
Include(name) == [op |-> "include", arg |-> name]
Raise == [op |-> "raise", arg |-> <<>>]

TemplateFiles ==
    (<<"t1", "a.em">> :> <<Text("A1"), Include(<<"b.em">>), Var("package_name")>>) @@
    (<<"t1", "b.em">> :> <<Text("B1"), Include(<<"c.em">>)>>) @@
    (<<"t1", "c.em">> :> <<Text("C1")>>) @@
    (<<"t1", "r.em">> :> <<Text("R1"), Raise>>) @@
    (<<"t1", "n.em">> :> <<Text("N1"), Include(<<"r.em">>)>>) @@
    (<<"t1", "sub", "a.em">> :> <<Text("S1")>>) @@
    (<<"t1", "sub", "s.em">> :> <<Text("S2")>>) @@
    (<<"t2", "a.em">> :> <<Text("X1")>>) @@
    (<<"t2", "c.em">> :> <<Raise>>) @@
    (<<"t2", "e.em">> :> <<Text("E1"), Include(<<"c.em">>)>>) @@
    (<<"t2", "f.em">> :> <<Include(<<"e.em">>), Text("F1")>>) @@
    (<<"t2", "g.em">> :> <<Text("G1"), Include(<<"zz.em">>)>>)

\* pathlib.Path.exists for a template path
TemplateExists(path) == path \in DOMAIN TemplateFiles

-----------------------------------------------------------------------------
(* get_template_path, lines 148-154 *)

\* the loop of lines 150-153 from entry i of the search path on; NoPath stands for
\* the RuntimeError of line 154
RECURSIVE ProbeFrom(_, _, _)
ProbeFrom(path, i, template_name) ==
    IF i > Len(path) THEN NoPath
    ELSE IF TemplateExists(path[i] \o template_name) THEN path[i] \o template_name
         ELSE ProbeFrom(path, i + 1, template_name)

get_template_path(template_name) == ProbeFrom(template_prefix_path, 1, template_name)

-----------------------------------------------------------------------------
(* expand_template, lines 160-242 *)

\* _add_helper_functions, lines 245-246
AddHelperFunctions(data) ==
    [k \in DOMAIN data \cup {"TEMPLATE"} |->
        IF k = "TEMPLATE" THEN "_expand_template" ELSE data[k]]

\* dict(data), line 198: a new mapping with the same items
CopyDict(data) == [k \in DOMAIN data |-> data[k]]

\* a plausible slip: the copy left out, the name data stays bound to the
\* caller's dict
Rebind_Omitted(frame) == frame

\* line 198: the name data is rebound to a new dict with the caller's items
\* (callerData is the dict the caller passed, data the dict of the copy)
Rebind(frame) == [frame EXCEPT !.data_ref = "copy", !.data = CopyDict(frame.callerData)]

\* line 199: _add_helper_functions writes into the dict the name data is bound to
AddHelpers(frame) ==
    IF frame.data_ref = "copy"
    THEN [frame EXCEPT !.data = AddHelperFunctions(frame.data)]
    ELSE [frame EXCEPT !.callerData = AddHelperFunctions(frame.callerData),
                       !.data = AddHelperFunctions(frame.callerData)]

\* a plausible slip: a failed render leaves the old output file in place
RemoveIfExists_Skipped(files, path) == files

\* lines 212-213
RemoveIfExists(files, path) == [p \in DOMAIN files \ {path} |-> files[p]]

\* a plausible slip: >= where the code compares with >
SkipWrite_NotOlder(files, output_file, minimum_timestamp, content) ==
    /\ output_file \in DOMAIN files
    /\ minimum_timestamp = None \/ files[output_file].mtime >= minimum_timestamp
    /\ files[output_file].content = content

\* a plausible slip: "minimum_timestamp is None or" lost, nothing is skipped
\* without a timestamp to compare with
SkipWrite_NeedsTimestamp(files, output_file, minimum_timestamp, content) ==
    /\ output_file \in DOMAIN files
    /\ minimum_timestamp # None /\ files[output_file].mtime > minimum_timestamp
    /\ files[output_file].content = content

\* a plausible slip: the content comparison dropped, any fresh enough file is kept
SkipWrite_AnyContent(files, output_file, minimum_timestamp, content) ==
    /\ output_file \in DOMAIN files
    /\ minimum_timestamp = None \/ files[output_file].mtime > minimum_timestamp

\* lines 228-233: the early return that leaves the existing file alone
SkipWrite(files, output_file, minimum_timestamp, content) ==
    /\ output_file \in DOMAIN files
    /\ minimum_timestamp = None \/ files[output_file].mtime > minimum_timestamp
    /\ files[output_file].content = content

\* os.makedirs(os.path.dirname(output_file)), lines 236-239: FileExistsError is
\* swallowed, but the empty dirname of a bare file name makes os.makedirs('')
\* raise FileNotFoundError
MakedirsRaises(output_file) == output_file.dir = <<>>

\* lines 241-242: open(output_file, 'w') and write, stamped by the file system
WriteFile(files, output_file, content) ==
    [p \in DOMAIN files \cup {output_file} |->
        IF p = output_file THEN [content |-> content, mtime |-> now] ELSE files[p]]

\* the post-processing callbacks a caller may pass: none, one that appends a
\* trailer to the text, one that raises
PostProcessCallbacks == {"None", "trailer", "raises"}

\* line 224 for the callbacks that return
ApplyPostProcess(callback, content) ==
    IF callback = "trailer" THEN Append(content, "//end") ELSE content

\* what the running expansion does, as an observer of the engine sees it: the
\* hook invoked or the step taken, and the nesting depth of the template it
\* belongs to (1 for the top-level template, 0 for what follows the rendering)
Event(name, depth) == [name |-> name, depth |-> depth]

\* lines 166-173: the legacy split of the first argument, and the push
ExpandEnter(template_name, data, output_file, minimum_timestamp, template_basepath, post_process_callback, caller, repeat) ==
    LET legacy == template_basepath = NoPath
        basepath == IF legacy THEN Front(template_name) ELSE template_basepath
        name == IF legacy THEN <<Last(template_name)>> ELSE template_name
    IN  /\ template_prefix_path' = Append(template_prefix_path, basepath)
        /\ et' = [active |-> TRUE, caller |-> caller, repeat |-> repeat,
                  args |-> <<template_name, template_basepath>>,
                  template_name |-> name, template_basepath |-> basepath,
                  data0 |-> data, callerData |-> data, data |-> data, data_ref |-> "arg",
                  output_file |-> output_file,
                  minimum_timestamp |-> minimum_timestamp,
                  post_process_callback |-> post_process_callback,
                  template_path |-> NoPath, todo |-> <<>>, content |-> <<>>,
                  exc |-> "none", decided |-> FALSE, wrote |-> FALSE,
                  fs0 |-> fs, stack0 |-> template_prefix_path]
        /\ pc' = "et_resolve"
        /\ inc' = <<>>
        /\ output' = <<>>
        /\ events' = <<>>

\* the arguments of the direct calls
Targets ==
    { <<<<"a.em">>, T1>>, <<<<"a.em">>, T2>>, <<<<"r.em">>, T1>>, <<<<"c.em">>, T1>>,
      <<<<"e.em">>, T2>>, <<<<"f.em">>, T2>>, <<<<"g.em">>, T2>>,
      <<<<"zz.em">>, T1>>, <<<<"t1", "a.em">>, NoPath>> }

OutputFiles == { [dir |-> <<"out">>, name |-> <<"o", ".", "h">>],
                 [dir |-> <<>>, name |-> <<"o", ".", "h">>] }

Contexts == { [k \in {"package_name"} |-> "p1"], [k \in {} |-> "p1"] }

Timestamps == {None} \cup (0..MaxTime)

\* a caller invokes expand_template
ET_Call ==
    /\ pc = "idle"
    /\ ncalls < MaxCalls
    /\ \E target \in Targets, data \in Contexts, output_file \in OutputFiles,
          minimum_timestamp \in Timestamps, callback \in PostProcessCallbacks :
          ExpandEnter(target[1], data, output_file, minimum_timestamp, target[2],
                      callback, "top", "first")
    /\ ncalls' = ncalls + 1
    /\ UNCHANGED <<cv, nm, interpreter, engines, fs, now, log, gf>>

\* the caller invokes expand_template again, at once or a while later, with the
\* arguments of the call that just ended
ET_Repeat ==
    /\ pc = "et_done"
    /\ et.caller = "top"
    /\ ncalls < MaxCalls
    /\ ExpandEnter(et.args[1], et.callerData, et.output_file, et.minimum_timestamp,
                   et.args[2], et.post_process_callback, "top",
                   IF et.exc = "none" THEN "after_return" ELSE "after_raise")
    /\ ncalls' = ncalls + 1
    /\ log' = <<>>
    /\ \E later \in {now, now + 1} : later <= MaxTime /\ now' = later
    /\ UNCHANGED <<cv, nm, interpreter, engines, fs, gf>>

\* line 174; the RuntimeError of get_template_path leaves the function here,
\* before the try statement is entered
ET_Resolve ==
    /\ pc = "et_resolve"
    /\ LET template_path == get_template_path(et.template_name)
       IN  IF template_path = NoPath
           THEN /\ et' = [et EXCEPT !.exc = "TemplateNotFound"]
                /\ pc' = "et_done"
           ELSE /\ et' = [et EXCEPT !.template_path = template_path]
                /\ pc' = "et_create"
    /\ UNCHANGED <<cv, nm, template_prefix_path, interpreter, engines, fs, now, inc,
                   output, events, log, gf, ncalls>>

\* lines 176-199: a fresh sink and engine, the context copied and extended
ET_Create ==
    /\ pc = "et_create"
    /\ output' = <<>>
    /\ engines' = Append(engines, "live")
    /\ interpreter' = Len(engines) + 1
    /\ et' = AddHelpers(Rebind(et))
    /\ pc' = "et_before"
    /\ UNCHANGED <<cv, nm, template_prefix_path, fs, now, inc, events, log, gf, ncalls>>

\* lines 202-205: the template is read and the beforeFile hook invoked
ET_BeforeFile ==
    /\ pc = "et_before"
    /\ et' = [et EXCEPT !.todo = TemplateFiles[et.template_path]]
    /\ events' = Append(events, Event("beforeFile", 1))
    /\ pc' = "et_render"
    /\ UNCHANGED <<cv, nm, template_prefix_path, interpreter, engines, fs, now, inc,
                   output, log, gf, ncalls>>

-----------------------------------------------------------------------------
(* interpreter.string, lines 207 and 262, and _expand_template, lines 249-269 *)

\* the items the engine still has to render in the innermost active template
CurTodo == IF inc = <<>> THEN et.todo ELSE Last(inc).todo

\* the locals of the innermost active template
CurLocals == IF inc = <<>> THEN et.data ELSE Last(inc).locals

\* the innermost active template has rendered its next item
Advance ==
    IF inc = <<>>
    THEN /\ et' = [et EXCEPT !.todo = Tail(et.todo)]
         /\ inc' = inc
    ELSE /\ inc' = [inc EXCEPT ![Len(inc)].todo = Tail(Last(inc).todo)]
         /\ et' = et

\* an exception leaves the innermost interpreter.string
RaiseInRender(exc) ==
    /\ et' = [et EXCEPT !.exc = exc]
    /\ pc' = IF inc = <<>> THEN "et_except" ELSE "et_unwind"

\* literal text goes to the sink
R_Text ==
    /\ pc = "et_render"
    /\ CurTodo # <<>>
    /\ Head(CurTodo).op = "text"
    /\ output' = output \o Head(CurTodo).arg
    /\ events' = Append(events, Event("render", Len(inc) + 1))
    /\ Advance
    /\ UNCHANGED <<cv, nm, pc, template_prefix_path, interpreter, engines, fs, now,
                   log, gf, ncalls>>

\* an expression over the locals goes to the sink; an unknown name raises
R_Var ==
    /\ pc = "et_render"
    /\ CurTodo # <<>>
    /\ Head(CurTodo).op = "var"
    /\ \/ /\ Head(CurTodo).arg[1] \in DOMAIN CurLocals
          /\ output' = Append(output, CurLocals[Head(CurTodo).arg[1]])
          /\ events' = Append(events, Event("render", Len(inc) + 1))
          /\ Advance
          /\ pc' = pc
       \/ /\ Head(CurTodo).arg[1] \notin DOMAIN CurLocals
          /\ RaiseInRender("NameError")
          /\ UNCHANGED <<output, inc, events>>
    /\ UNCHANGED <<cv, nm, template_prefix_path, interpreter, engines, fs, now,
                   log, gf, ncalls>>

\* the template raises
R_Raise ==
    /\ pc = "et_render"
    /\ CurTodo # <<>>
    /\ Head(CurTodo).op = "raise"
    /\ RaiseInRender("RenderError")
    /\ UNCHANGED <<cv, nm, template_prefix_path, interpreter, engines, fs, now, inc,
                   output, events, log, gf, ncalls>>

\* the template calls TEMPLATE(name, ...): _expand_template, lines 249-259.
\* The callable is handed the caller's locals as keyword arguments.
R_Include ==
    /\ pc = "et_render"
    /\ CurTodo # <<>>
    /\ Head(CurTodo).op = "include"
    /\ LET template_name == Head(CurTodo).arg
           template_path == get_template_path(template_name)
           kwargs == [k \in DOMAIN CurLocals \ {"TEMPLATE"} |-> CurLocals[k]]
       IN  \/ /\ template_path = NoPath
              /\ RaiseInRender("IncludeNotFound")
              /\ UNCHANGED <<inc, events>>
           \/ /\ template_path # NoPath
              /\ events' = Append(events, Event("beforeInclude", Len(inc) + 2))
              /\ inc' = Append(IF inc = <<>> THEN inc
                               ELSE [inc EXCEPT ![Len(inc)].todo = Tail(Last(inc).todo)],
                               [template_path |-> template_path,
                                locals |-> AddHelperFunctions(kwargs),
                                todo |-> TemplateFiles[template_path]])
              /\ et' = IF inc = <<>> THEN [et EXCEPT !.todo = Tail(et.todo)] ELSE et
              /\ pc' = pc
    /\ UNCHANGED <<cv, nm, template_prefix_path, interpreter, engines, fs, now,
                   output, log, gf, ncalls>>

\* line 269: the nested template is rendered, afterInclude is invoked and
\* _expand_template returns into the including template
R_IncludeReturn ==
    /\ pc = "et_render"
    /\ inc # <<>>
    /\ Last(inc).todo = <<>>
    /\ events' = Append(events, Event("afterInclude", Len(inc) + 1))
    /\ inc' = Front(inc)
    /\ UNCHANGED <<cv, nm, pc, template_prefix_path, interpreter, engines, fs, now, et,
                   output, log, gf, ncalls>>

\* a plausible slip: afterInclude invoked in a finally clause, so on a raise too
INC_Except_AfterInclude ==
    /\ pc = "et_unwind"
    /\ inc # <<>>
    /\ log' = Append(log, [kind |-> "include", template |-> Last(inc).template_path,
                           exc |-> et.exc])
    /\ events' = Append(events, Event("afterInclude", Len(inc) + 1))
    /\ inc' = Front(inc)
    /\ pc' = IF Len(inc) = 1 THEN "et_except" ELSE "et_unwind"
    /\ UNCHANGED <<cv, nm, template_prefix_path, interpreter, engines, fs, now, et,
                   output, gf, ncalls>>

\* lines 265-268: an exception passes through one active _expand_template
INC_Except ==
    /\ pc = "et_unwind"
    /\ inc # <<>>
    /\ log' = Append(log, [kind |-> "include", template |-> Last(inc).template_path,
                           exc |-> et.exc])
    /\ inc' = Front(inc)
    /\ pc' = IF Len(inc) = 1 THEN "et_except" ELSE "et_unwind"
    /\ UNCHANGED <<cv, nm, template_prefix_path, interpreter, engines, fs, now, et,
                   output, events, gf, ncalls>>

\* line 210: the top-level template is rendered, afterFile is invoked
ET_AfterFile ==
    /\ pc = "et_render"
    /\ inc = <<>>
    /\ et.todo = <<>>
    /\ events' = Append(events, Event("afterFile", 1))
    /\ pc' = "et_finally"
    /\ UNCHANGED <<cv, nm, template_prefix_path, interpreter, engines, fs, now, et, inc,
                   output, log, gf, ncalls>>

\* lines 211-216: the except clause
ET_Except ==
    /\ pc = "et_except"
    /\ fs' = RemoveIfExists(fs, et.output_file)
    /\ log' = Append(log, [kind |-> "expand", template |-> et.template_name,
                           dest |-> et.output_file, exc |-> et.exc])
    /\ pc' = "et_finally"
    /\ UNCHANGED <<cv, nm, template_prefix_path, interpreter, engines, now, et, inc,
                   output, events, gf, ncalls>>

\* lines 217-218: the finally clause; a pending exception then leaves the function
ET_Finally ==
    /\ pc = "et_finally"
    /\ template_prefix_path' = Front(template_prefix_path)
    /\ pc' = IF et.exc = "none" THEN "et_shutdown" ELSE "et_done"
    /\ UNCHANGED <<cv, nm, interpreter, engines, fs, now, et, inc, output, events, log,
                   gf, ncalls>>

\* lines 220-221
ET_Shutdown ==
    /\ pc = "et_shutdown"
    /\ et' = [et EXCEPT !.content = output]
    /\ engines' = [engines EXCEPT ![interpreter] = "shutdown"]
    /\ events' = Append(events, Event("shutdown", 0))
    /\ pc' = "et_post"
    /\ UNCHANGED <<cv, nm, template_prefix_path, interpreter, fs, now, inc, output, log,
                   gf, ncalls>>

\* lines 223-224
ET_PostProcess ==
    /\ pc = "et_post"
    /\ IF et.post_process_callback = "None"
       THEN /\ pc' = "et_write"
            /\ UNCHANGED <<et, events>>
       ELSE /\ events' = Append(events, Event("post_process", 0))
            /\ IF et.post_process_callback = "raises"
               THEN /\ et' = [et EXCEPT !.exc = "CallbackError"]
                    /\ pc' = "et_done"
               ELSE /\ et' = [et EXCEPT !.content =
                                  ApplyPostProcess(et.post_process_callback, et.content)]
                    /\ pc' = "et_write"
    /\ UNCHANGED <<cv, nm, template_prefix_path, interpreter, engines, fs, now, inc,
                   output, log, gf, ncalls>>

\* lines 226-242: the write decision
ET_Write ==
    /\ pc = "et_write"
    /\ events' = Append(events, Event("write_decision", 0))
    /\ IF SkipWrite(fs, et.output_file, et.minimum_timestamp, et.content)
       THEN /\ et' = [et EXCEPT !.decided = TRUE]
            /\ fs' = fs
       ELSE IF et.output_file \notin DOMAIN fs /\ MakedirsRaises(et.output_file)
       THEN /\ et' = [et EXCEPT !.decided = TRUE, !.exc = "FileNotFoundError"]
            /\ fs' = fs
       ELSE /\ et' = [et EXCEPT !.decided = TRUE, !.wrote = TRUE]
            /\ fs' = WriteFile(fs, et.output_file, et.content)
    /\ pc' = "et_done"
    /\ UNCHANGED <<cv, nm, template_prefix_path, interpreter, engines, now, inc,
                   output, log, gf, ncalls>>

\* the call is over and its caller goes on
ET_Return ==
    /\ pc = "et_done"
    /\ et.caller = "top"
    /\ pc' = "idle"
    /\ et' = EtIdle
    /\ inc' = <<>>
    /\ output' = <<>>
    /\ events' = <<>>
    /\ log' = <<>>
    /\ UNCHANGED <<cv, nm, template_prefix_path, interpreter, engines, fs, now, gf, ncalls>>

\* time passes between calls
Tick ==
    /\ pc = "idle"
    /\ now < MaxTime
    /\ now' = now + 1
    /\ UNCHANGED <<cv, nm, pc, template_prefix_path, interpreter, engines, fs, et, inc,
                   output, events, log, gf, ncalls>>

ExpandSteps ==
    \/ ET_Resolve \/ ET_Create \/ ET_BeforeFile
    \/ R_Text \/ R_Var \/ R_Raise \/ R_Include \/ R_IncludeReturn \/ INC_Except
    \/ ET_AfterFile \/ ET_Except \/ ET_Finally \/ ET_Shutdown \/ ET_PostProcess \/ ET_Write

Init == cv = CvIdle /\ nm = NmIdle /\ InitMain
Next == ET_Call \/ ET_Repeat \/ ExpandSteps \/ ET_Return \/ Tick
Spec == Init /\ [][Next]_vars

-----------------------------------------------------------------------------
(* generate_files, lines 71-142 *)

EmptyDict == [k \in {} |-> TRUE]

\* the IDL files of the manifests: (base directory, relative path), the relative
\* path as its parent directories and the stem of its file name
Idl1 == [base |-> "pkg", parent |-> <<"msg">>, stem |-> <<"A", "b">>]
Idl2 == [base |-> "pkg", parent |-> <<"srv">>, stem |-> <<"a", "B">>]
Idl3 == [base |-> "pkg", parent |-> <<"msg">>, stem |-> <<"B", "1">>]  \* does not parse
Idl4 == [base |-> "pkg", parent |-> <<>>, stem |-> <<"A">>]            \* no parent directory
IdlEntries == {Idl1, Idl2, Idl3, Idl4}

\* idl_parts[1], the relative path of an entry
RelPath(locator) == [parent |-> locator.parent, stem |-> locator.stem]

\* parse_idl_file raises for a file that is not valid IDL
IdlParses(locator) == locator # Idl3

\* the side files on disk
SideFiles == {"ab.json", "a_b.json", "b1.json"}

\* the modification times of the dependency files on disk ("d3" is not there)
DependencyMtimes == ("d1" :> 0) @@ ("d2" :> 2)

\* the orders and sizes of manifest tried
MaxIdl == 2

\* type_description_tuples, each already split at its first colon (line 88): none,
\* one per IDL file, one for the first IDL file only, one naming a side file that
\* does not exist, one without a colon
TypeDescriptionOptions ==
    { <<>>,
      << <<RelPath(Idl1), "ab.json">>, <<RelPath(Idl2), "a_b.json">>,
         <<RelPath(Idl3), "b1.json">>, <<RelPath(Idl4), "ab.json">> >>,
      << <<RelPath(Idl1), "ab.json">> >>,
      << <<RelPath(Idl1), "gone.json">>, <<RelPath(Idl2), "a_b.json">> >>,
      << <<RelPath(Idl1)>> >> }

\* the template mappings tried, in the order the dict yields its items
MapOne == << [key |-> <<"a.em">>, pattern |-> <<"%s", ".", "h">>] >>
MapTwo == << [key |-> <<"a.em">>, pattern |-> <<"%s", ".", "h">>],
             [key |-> <<"c.em">>, pattern |-> <<"x", "_", "%s">>] >>
MapRaising == << [key |-> <<"a.em">>, pattern |-> <<"%s", ".", "h">>],
                 [key |-> <<"n.em">>, pattern |-> <<"%s", ".", "c">>],
                 [key |-> <<"c.em">>, pattern |-> <<"x", "_", "%s">>] >>
MapMissing == << [key |-> <<"a.em">>, pattern |-> <<"%s", ".", "h">>],
                 [key |-> <<"zz.em">>, pattern |-> <<"%s", ".", "c">>] >>
MapSubdirOnly == << [key |-> <<"sub", "s.em">>, pattern |-> <<"%s", ".", "h">>] >>
MapSubdirBoth == << [key |-> <<"sub", "a.em">>, pattern |-> <<"%s", ".", "h">>] >>
MapNoSlot == << [key |-> <<"c.em">>, pattern |-> <<"x", ".", "h">>] >>
Mappings == {MapOne, MapTwo, MapRaising, MapMissing, MapSubdirOnly, MapSubdirBoth, MapNoSlot}

NoContext == [given |-> FALSE, items |-> EmptyDict]
SomeContext == [given |-> TRUE, items |-> [k \in {"package_name", "extra"} |-> "more"]]

GenArgs(idl_tuples, type_description_tuples, target_dependencies) ==
    [template_dir |-> T1, output_dir |-> <<"gen">>, package_name |-> "pkg",
     target_dependencies |-> target_dependencies,
     idl_tuples |-> idl_tuples,
     type_description_tuples |-> type_description_tuples,
     ros_interface_files |-> << [suffix |-> "msg", stem |-> <<"A", "b">>, path |-> "Ab.msg"] >>]

GenInput(args, mapping, additional_context, keep_case, callback) ==
    [args |-> args, mapping |-> mapping, additional_context |-> additional_context,
     keep_case |-> keep_case, post_process_callback |-> callback]

\* the calls tried: every mapping over every short manifest in both cases, every
\* side-file table over every short manifest, and the dependency lists, contexts
\* and callbacks over the manifests that generate
GenInputs ==
    {GenInput(GenArgs(idl, <<>>, <<"d1">>), m, NoContext, kc, "None") :
        idl \in SeqsUpTo(IdlEntries, MaxIdl), m \in Mappings, kc \in BOOLEAN}
    \cup
    {GenInput(GenArgs(idl, td, <<"d1">>), MapTwo, NoContext, FALSE, "None") :
        idl \in SeqsUpTo(IdlEntries, MaxIdl), td \in TypeDescriptionOptions}
    \cup
    {GenInput(GenArgs(idl, <<>>, deps), m, ctx, FALSE, cb) :
        idl \in {<<Idl1>>, <<Idl1, Idl2>>}, m \in {MapOne, MapTwo, MapMissing},
        deps \in {<<>>, <<"d1">>, <<"d1", "d2">>, <<"d1", "d3">>},
        ctx \in {NoContext, SomeContext}, cb \in PostProcessCallbacks}

\* a plausible slip: the templates are not checked before the work starts
MissingTemplates_Unchecked(template_basepath, mapping) == {}

\* lines 79-81: the mapping keys that fail the assertion
MissingTemplates(template_basepath, mapping) ==
    {i \in 1..Len(mapping) : ~TemplateExists(template_basepath \o mapping[i].key)}

\* lines 86-90: the side-file table; an entry that did not split in two fails the
\* assertion of line 89
MalformedTuples(tuples) == {i \in 1..Len(tuples) : Len(tuples[i]) # 2}

RECURSIVE DictOfTuples(_, _)
DictOfTuples(tuples, n) ==
    IF n = 0 THEN [k \in {} |-> ""]
    ELSE LET before == DictOfTuples(tuples, n - 1)
         IN  [k \in DOMAIN before \cup {tuples[n][1]} |->
                 IF k = tuples[n][1] THEN tuples[n][2] ELSE before[k]]

\* lines 91-96: the legacy source files by (suffix without its dot, stem)
RECURSIVE RosInterfaceFiles(_, _)
RosInterfaceFiles(files, n) ==
    IF n = 0 THEN [k \in {} |-> ""]
    ELSE LET before == RosInterfaceFiles(files, n - 1)
             key == <<files[n].suffix, files[n].stem>>
         IN  [k \in DOMAIN before \cup {key} |-> IF k = key THEN files[n].path ELSE before[k]]

\* a plausible slip: the case conversion applied when keep_case is set
OutputStem_Inverted(stem, keep_case) ==
    IF keep_case THEN convert_camel_case_to_lower_case_underscore(stem) ELSE stem

\* lines 110, 113-114
OutputStem(stem, keep_case) ==
    IF keep_case THEN stem ELSE convert_camel_case_to_lower_case_underscore(stem)

\* generated_filename % idl_stem, line 120: the pattern must hold one %s
SlotCount(pattern) == Cardinality({i \in 1..Len(pattern) : pattern[i] = "%s"})

RECURSIVE Substitute(_, _)
Substitute(pattern, stem) ==
    IF pattern = <<>> THEN <<>>
    ELSE (IF Head(pattern) = "%s" THEN stem ELSE <<Head(pattern)>>)
         \o Substitute(Tail(pattern), stem)

\* lines 118-120: os.path.join(output_dir, str(idl_rel_path.parent), name)
GeneratedFile(output_dir, parent, pattern, idl_stem) ==
    [dir |-> output_dir \o parent, name |-> Substitute(pattern, idl_stem)]

\* lines 122-130
RenderData(args, locator, type_description_info, type_source_file, additional_context) ==
    LET fixed == [package_name |-> args.package_name,
                  interface_path |-> RelPath(locator),
                  content |-> "tree",
                  type_description_info |-> type_description_info,
                  type_source_file |-> type_source_file]
        extra == additional_context.items
    IN  IF additional_context.given
        THEN [k \in DOMAIN fixed \cup DOMAIN extra |->
                 IF k \in DOMAIN extra THEN extra[k] ELSE fixed[k]]
        ELSE fixed

\* lines 76-96: the manifest is read, the templates checked, the cutoff computed
\* and the two lookup tables built (previous_end: the clock when the caller made
\* up its mind to call, which for a repeated run is when the run before it ended)
GenerateEnter(input, repeat) ==
    LET args == input.args
        missing == MissingTemplates(args.template_dir, input.mapping)
        newest == get_newest_modification_time(args.target_dependencies, DependencyMtimes)
        malformed == MalformedTuples(args.type_description_tuples)
        exc == IF missing # {} THEN "AssertionError"
               ELSE IF newest.exc # "none" THEN newest.exc
               ELSE IF malformed # {} THEN "AssertionError"
               ELSE "none"
    IN  /\ gf' = [active |-> TRUE, input |-> input, repeat |-> repeat,
                  additional_context |-> input.additional_context, data |-> EmptyDict,
                  latest_target_timestamp |-> newest.value,
                  type_description_files |->
                      IF exc = "none"
                      THEN DictOfTuples(args.type_description_tuples,
                                        Len(args.type_description_tuples))
                      ELSE [k \in {} |-> ""],
                  ros_interface_files |->
                      RosInterfaceFiles(args.ros_interface_files, Len(args.ros_interface_files)),
                  i |-> 1, j |-> 1, idl_stem |-> <<>>,
                  type_description_info |-> "None", type_source_file |-> "None",
                  generated_files |-> <<>>, parsed |-> <<>>, expanded |-> <<>>,
                  exc |-> exc, raised_in |-> IF exc = "none" THEN "nowhere" ELSE "setup",
                  fs0 |-> fs, previous_end |-> now]
        /\ pc' = IF exc = "none" THEN "gf_idl" ELSE "gf_done"

\* a fresh process calls generate_files
GF_Call ==
    /\ pc = "idle"
    /\ ncalls = 0
    /\ \E input \in GenInputs : GenerateEnter(input, "first")
    /\ ncalls' = ncalls + 1
    /\ UNCHANGED <<cv, nm, template_prefix_path, interpreter, engines, fs, now, et, inc,
                   output, events, log>>

\* the process calls generate_files again, at once or a while later, with the
\* arguments of the run that just ended
GF_Repeat ==
    /\ pc = "gf_done"
    /\ ncalls < MaxCalls
    /\ GenerateEnter(gf.input, IF gf.exc = "none" THEN "after_return" ELSE "after_raise")
    /\ ncalls' = ncalls + 1
    /\ log' = <<>>
    /\ \E later \in {now, now + 1} : later <= MaxTime /\ now' = later
    /\ UNCHANGED <<cv, nm, template_prefix_path, interpreter, engines, fs, et, inc,
                   output, events>>

\* lines 99-114 for the next IDL entry: the side file is looked up and read, the
\* source file and the output stem are determined; nothing here is inside the try
\* statement of line 115
GF_IdlBegin ==
    /\ pc = "gf_idl"
    /\ gf.i <= Len(gf.input.args.idl_tuples)
    /\ LET locator == gf.input.args.idl_tuples[gf.i]
           table == gf.type_description_files
           exc == IF DOMAIN table # {} /\ RelPath(locator) \notin DOMAIN table THEN "KeyError"
                  ELSE IF DOMAIN table # {} /\ table[RelPath(locator)] \notin SideFiles
                       THEN "FileNotFoundError"
                  ELSE IF locator.parent = <<>> THEN "IndexError"
                  ELSE "none"
       IN  IF exc # "none"
           THEN /\ gf' = [gf EXCEPT !.exc = exc, !.raised_in = "entry"]
                /\ pc' = "gf_done"
           ELSE LET type_source_key == <<Last(locator.parent), locator.stem>>
                IN  /\ gf' = [gf EXCEPT
                            !.type_description_info =
                                IF DOMAIN table # {} THEN table[RelPath(locator)] ELSE "None",
                            !.type_source_file =
                                IF type_source_key \in DOMAIN gf.ros_interface_files
                                THEN gf.ros_interface_files[type_source_key]
                                ELSE "absolute path of the IDL file",
                            !.idl_stem = OutputStem(locator.stem, gf.input.keep_case)]
                    /\ pc' = "gf_parse"
    /\ UNCHANGED <<cv, nm, template_prefix_path, interpreter, engines, fs, now, et, inc,
                   output, events, log, ncalls>>

\* line 116
GF_Parse ==
    /\ pc = "gf_parse"
    /\ LET locator == gf.input.args.idl_tuples[gf.i]
       IN  IF IdlParses(locator)
           THEN /\ gf' = [gf EXCEPT !.parsed = Append(gf.parsed, locator), !.j = 1]
                /\ pc' = "gf_tmpl"
           ELSE /\ gf' = [gf EXCEPT !.exc = "ParseError", !.raised_in = "entry"]
                /\ pc' = "gf_except"
    /\ UNCHANGED <<cv, nm, template_prefix_path, interpreter, engines, fs, now, et, inc,
                   output, events, log, ncalls>>

\* lines 117-135 for the next template of the mapping: the output path is
\* computed and recorded, the context built, expand_template called with the
\* base name of the mapping key
GF_Template ==
    /\ pc = "gf_tmpl"
    /\ gf.j <= Len(gf.input.mapping)
    /\ LET args == gf.input.args
           locator == args.idl_tuples[gf.i]
           entry == gf.input.mapping[gf.j]
           generated_file == GeneratedFile(args.output_dir, locator.parent,
                                           entry.pattern, gf.idl_stem)
           data == RenderData(args, locator, gf.type_description_info,
                              gf.type_source_file, gf.additional_context)
       IN  \/ /\ SlotCount(entry.pattern) # 1
              /\ gf' = [gf EXCEPT !.exc = "TypeError", !.raised_in = "entry"]
              /\ pc' = "gf_except"
              /\ UNCHANGED <<template_prefix_path, et, inc, output, events>>
           \/ /\ SlotCount(entry.pattern) = 1
              /\ gf' = [gf EXCEPT !.generated_files = Append(gf.generated_files, generated_file),
                                  !.expanded = Append(gf.expanded, <<gf.i, gf.j>>),
                                  !.data = data]
              /\ ExpandEnter(<<Last(entry.key)>>, data, generated_file,
                             gf.latest_target_timestamp, args.template_dir,
                             gf.input.post_process_callback, "gf", "first")
    /\ UNCHANGED <<cv, nm, interpreter, engines, fs, now, log, ncalls>>

\* expand_template is over: the loop of line 117 goes on, or the exception
\* reaches the except clause of line 136
GF_AfterExpand ==
    /\ pc = "et_done"
    /\ et.caller = "gf"
    /\ IF et.exc = "none"
       THEN /\ gf' = [gf EXCEPT !.j = gf.j + 1, !.data = et.callerData]
            /\ pc' = "gf_tmpl"
       ELSE /\ gf' = [gf EXCEPT !.exc = et.exc, !.raised_in = "entry",
                                !.data = et.callerData]
            /\ pc' = "gf_except"
    /\ et' = EtIdle
    /\ inc' = <<>>
    /\ output' = <<>>
    /\ events' = <<>>
    /\ UNCHANGED <<cv, nm, template_prefix_path, interpreter, engines, fs, now, log, ncalls>>

\* the mapping is exhausted: the loop of line 98 takes the next IDL entry
GF_NextIdl ==
    /\ pc = "gf_tmpl"
    /\ gf.j > Len(gf.input.mapping)
    /\ gf' = [gf EXCEPT !.i = gf.i + 1]
    /\ pc' = "gf_idl"
    /\ UNCHANGED <<cv, nm, template_prefix_path, interpreter, engines, fs, now, et, inc,
                   output, events, log, ncalls>>

\* lines 136-140
GF_Except ==
    /\ pc = "gf_except"
    /\ log' = Append(log, [kind |-> "idl", file |-> gf.input.args.idl_tuples[gf.i],
                           exc |-> gf.exc])
    /\ pc' = "gf_done"
    /\ UNCHANGED <<cv, nm, template_prefix_path, interpreter, engines, fs, now, et, inc,
                   output, events, gf, ncalls>>

\* line 142
GF_ReturnList ==
    /\ pc = "gf_idl"
    /\ gf.i > Len(gf.input.args.idl_tuples)
    /\ pc' = "gf_done"
    /\ UNCHANGED <<cv, nm, template_prefix_path, interpreter, engines, fs, now, et, inc,
                   output, events, log, gf, ncalls>>

\* the run is over and its caller goes on
GF_Return ==
    /\ pc = "gf_done"
    /\ pc' = "idle"
    /\ gf' = GfIdle
    /\ log' = <<>>
    /\ UNCHANGED <<cv, nm, template_prefix_path, interpreter, engines, fs, now, et, inc,
                   output, events, ncalls>>

GenerateSteps ==
    \/ GF_IdlBegin \/ GF_Parse \/ GF_Template \/ GF_AfterExpand \/ GF_NextIdl
    \/ GF_Except \/ GF_ReturnList

NextGen == GF_Call \/ GF_Repeat \/ GenerateSteps \/ ExpandSteps \/ GF_Return \/ Tick
SpecGen == Init /\ [][NextGen]_vars

-----------------------------------------------------------------------------
(* Specifications of the two pure functions *)

InitConvert == InitConvert0 /\ nm = NmIdle /\ InitMain
NextConvert == ConvertOnce \/ ConvertTwice
SpecConvert == InitConvert /\ [][NextConvert]_vars

InitNewest == InitNewest0 /\ cv = CvIdle /\ InitMain
NextNewest == NewestCall
SpecNewest == InitNewest /\ [][NextNewest]_vars

-----------------------------------------------------------------------------
(* Claims about expand_template, checked under Spec *)

\* the exceptions that leave the try statement of lines 201-210
RenderExceptions == {"RenderError", "NameError", "IncludeNotFound"}

\* the three conditions of the write decision, on the file system the call found
\* (a call that reaches the decision has not touched the file system before it)
SkipConditions ==
    /\ et.output_file \in DOMAIN et.fs0
    /\ \/ et.minimum_timestamp = None
       \/ et.fs0[et.output_file].mtime > et.minimum_timestamp
    /\ et.fs0[et.output_file].content = et.content

NotWritten == ~et.wrote /\ fs = et.fs0

Written ==
    /\ et.wrote
    /\ et.output_file \in DOMAIN fs
    /\ fs[et.output_file] = [content |-> et.content, mtime |-> now]

(* C1: a call that reaches the write decision leaves the output file alone  *)
(* (content and modification time) exactly when the file exists, is         *)
(* strictly newer than minimum_timestamp (or none was given) and already    *)
(* holds the rendered, post-processed content; in every other case it       *)
(* writes the file.                                                         *)
C1_SkipExactlyWhen ==
    (pc = "et_done" /\ et.decided) =>
        /\ SkipConditions => NotWritten
        /\ ~SkipConditions => Written

\* The decision itself is the claimed one wherever the output path has a
\* directory part: only os.makedirs('') stands between the decision and the
\* write.
C1_SkipExactlyWhen_WithDirectory ==
    (pc = "et_done" /\ et.decided /\ et.output_file.dir # <<>>) =>
        /\ SkipConditions => NotWritten
        /\ ~SkipConditions => Written

(* C2: when expand_template returns normally the output file exists and     *)
(* holds the rendered text with the post-processing callback applied,       *)
(* whatever was at the output path before.                                  *)
C2_ReturnedMeansWritten ==
    (pc = "et_done" /\ et.exc = "none") =>
        /\ et.output_file \in DOMAIN fs
        /\ fs[et.output_file].content = ApplyPostProcess(et.post_process_callback, output)

\* a normal return over an existing file with other content, with a callback
C2_Witness ==
    /\ pc = "et_done"
    /\ et.exc = "none"
    /\ et.post_process_callback = "trailer"
    /\ et.output_file \in DOMAIN et.fs0
    /\ et.fs0[et.output_file].content # fs[et.output_file].content
    /\ Len(output) > 1

(* C3: when rendering raises, in the top-level template or in a nested      *)
(* include, no file is left at the output path when expand_template exits,  *)
(* the error is logged with the template name and the destination, and the  *)
(* exception reaches the caller.                                            *)
C3_RenderFailureRemovesOutput ==
    (pc = "et_done" /\ et.exc \in RenderExceptions) =>
        /\ et.output_file \notin DOMAIN fs
        /\ \E i \in 1..Len(log) :
              /\ log[i].kind = "expand"
              /\ log[i].template = et.template_name
              /\ log[i].dest = et.output_file
              /\ log[i].exc = et.exc

\* a raise two includes deep, with an output file in place before the call
C3_Witness ==
    /\ pc = "et_done"
    /\ et.exc = "RenderError"
    /\ et.output_file \in DOMAIN et.fs0
    /\ Len(log) = 3
    /\ log[1].kind = "include" /\ log[2].kind = "include"

(* C4: whenever expand_template exits, returning or raising, the search     *)
(* path is what it was before the call.                                     *)
C4_SearchPathRestored ==
    pc = "et_done" => template_prefix_path = et.stack0

\* The pop does happen on every exit other than the RuntimeError of line 174.
C4_SearchPathRestored_OnceResolved ==
    (pc = "et_done" /\ et.exc # "TemplateNotFound") => template_prefix_path = et.stack0

(* C7: a second call with the arguments of a call that just returned, and   *)
(* no minimum_timestamp, returns too, leaves the content of the output file *)
(* as the first call left it and does not touch its modification time.      *)
C7_SecondCallChangesNothing ==
    (pc = "et_done" /\ et.repeat = "after_return" /\ et.minimum_timestamp = None) =>
        /\ et.exc = "none"
        /\ ~et.wrote
        /\ fs = et.fs0
        /\ fs[et.output_file].content = ApplyPostProcess(et.post_process_callback, output)

\* the second of two calls, the first of which wrote the file at an earlier time
C7_Witness ==
    /\ pc = "et_done"
    /\ et.repeat = "after_return"
    /\ et.minimum_timestamp = None
    /\ et.exc = "none"
    /\ fs[et.output_file].mtime < now
    /\ Len(output) > 2

-----------------------------------------------------------------------------
(* Claims about generate_files, checked under SpecGen *)

\* some key of the mapping names no file under template_dir
SomeTemplateMissing ==
    \E i \in 1..Len(gf.input.mapping) :
        (gf.input.args.template_dir \o gf.input.mapping[i].key) \notin DOMAIN TemplateFiles

(* C5: a run whose mapping has a key that does not exist under template_dir *)
(* fails before any IDL entry is processed: no IDL file is parsed, no       *)
(* template is expanded and no output file is created, changed or removed.  *)
C5_UnknownTemplateFailsFirst ==
    (gf.active /\ SomeTemplateMissing) =>
        /\ pc = "gf_done"
        /\ gf.exc = "AssertionError"
        /\ gf.parsed = <<>>
        /\ gf.expanded = <<>>
        /\ ~et.active
        /\ fs = gf.fs0

\* the unknown key is the second one, behind a key that exists, in a manifest
\* of two IDL files that parse
C5_Witness ==
    /\ pc = "gf_done"
    /\ gf.input.mapping = MapMissing
    /\ gf.input.args.idl_tuples = <<Idl1, Idl2>>
    /\ gf.exc = "AssertionError"

\* the run stopped at IDL entry gf.i: nothing after it was touched
NothingAfterFailure ==
    /\ Len(gf.parsed) <= gf.i
    /\ \A k \in 1..Len(gf.expanded) :
          \/ gf.expanded[k][1] < gf.i
          \/ gf.expanded[k][1] = gf.i /\ gf.expanded[k][2] <= gf.j

FailureLogged ==
    \E k \in 1..Len(log) :
        log[k].kind = "idl" /\ log[k].file = gf.input.args.idl_tuples[gf.i]

(* C6: an exception raised while an IDL entry is processed (side-file      *)
(* lookup or read, type-source key, parsing, template expansion) is logged *)
(* with that IDL file's identity and re-raised, and nothing after it is    *)
(* processed.                                                              *)
C6_EntryFailureLogged ==
    (pc = "gf_done" /\ gf.raised_in = "entry") =>
        /\ gf.exc # "none"
        /\ FailureLogged
        /\ NothingAfterFailure

\* What the try statement of line 115 does cover: parsing, the output name and
\* the expansion.
C6_EntryFailureLogged_InsideTry ==
    (pc = "gf_done" /\ gf.raised_in = "entry"
       /\ gf.exc \notin {"KeyError", "FileNotFoundError", "IndexError"}) =>
        /\ FailureLogged
        /\ NothingAfterFailure

\* the pattern with its one slot filled
FillSlot(pattern, stem) ==
    LET p == CHOOSE i \in 1..Len(pattern) : pattern[i] = "%s"
    IN  SubSeq(pattern, 1, p - 1) \o stem \o SubSeq(pattern, p + 1, Len(pattern))

(* C8: the list a run returns holds one path per (IDL entry, mapping entry) *)
(* pair, in manifest order and then mapping order, each path being          *)
(* output_dir / parent of the IDL path / the pattern filled with the stem   *)
(* (case-converted unless keep_case), whether the file was rewritten or not.*)
C8_ReturnedPaths ==
    (pc = "gf_done" /\ gf.exc = "none") =>
        LET idl == gf.input.args.idl_tuples
            mapping == gf.input.mapping
            width == Len(mapping)
        IN  /\ Len(gf.generated_files) = Len(idl) * width
            /\ \A a \in 1..Len(idl), b \in 1..width :
                  LET stem == IF gf.input.keep_case THEN idl[a].stem
                              ELSE convert_camel_case_to_lower_case_underscore(idl[a].stem)
                  IN  gf.generated_files[(a - 1) * width + b] =
                          [dir |-> gf.input.args.output_dir \o idl[a].parent,
                           name |-> FillSlot(mapping[b].pattern, stem)]

\* a second run over two IDL files and two templates that rewrote nothing and
\* still returns the four paths
C8_Witness ==
    /\ pc = "gf_done"
    /\ gf.exc = "none"
    /\ gf.repeat = "after_return"
    /\ fs = gf.fs0
    /\ ~gf.input.keep_case
    /\ Len(gf.generated_files) = 4
    /\ gf.generated_files[3] = [dir |-> <<"gen", "srv">>, name |-> <<"a", "_", "b", ".", "h">>]
    /\ gf.generated_files[4] = [dir |-> <<"gen", "srv">>, name |-> <<"x", "_", "a", "_", "b">>]

-----------------------------------------------------------------------------
(* C9: get_newest_modification_time returns None for an empty list and   *)
(* otherwise the largest modification time of the listed files; when any *)
(* listed file is missing the call raises and returns no maximum.        *)
C9_NewestIsMaximum ==
    nm.pc = "done" =>
        LET idx == 1..Len(nm.deps)
            missing == \E i \in idx : nm.deps[i] \notin DOMAIN nm.mtimes
        IN  /\ Len(nm.deps) = 0 => nm.result = [exc |-> "none", value |-> None]
            /\ (Len(nm.deps) > 0 /\ ~missing) =>
                   /\ nm.result.exc = "none"
                   /\ \E i \in idx : nm.result.value = nm.mtimes[nm.deps[i]]
                   /\ \A i \in idx : nm.mtimes[nm.deps[i]] <= nm.result.value
            /\ missing => nm.result.exc # "none" /\ nm.result.value = None

\* three existing files with distinct times, the newest neither first nor last
C9_Witness ==
    /\ nm.pc = "done"
    /\ nm.deps = <<"d1", "d2", "d3">>
    /\ DOMAIN nm.mtimes = DepFiles
    /\ nm.mtimes["d1"] = 1 /\ nm.mtimes["d2"] = 2 /\ nm.mtimes["d3"] = 0
    /\ nm.result = [exc |-> "none", value |-> 2]

-----------------------------------------------------------------------------
(* C10: the naming normalizer is idempotent: applied to its own result it *)
(* returns that result unchanged, for every identifier over the alphabet. *)
C10_ConvertIdempotent ==
    cv.pc = "twice" => cv.twice = cv.once

\* an identifier that the normalizer really rewrites (an underscore inserted
\* and letters lower-cased), normalized twice
C10_Witness ==
    /\ cv.pc = "twice"
    /\ cv.value = <<"A", "B", "a", "B">>
    /\ cv.once = <<"a", "_", "b", "a", "_", "b">>

-----------------------------------------------------------------------------
(* Claims about the search path and the engine, checked under Spec *)

\* the entries of a search path that hold a file of that name
Holding(path, template_name) ==
    {i \in 1..Len(path) : TemplateExists(path[i] \o template_name)}

\* the greatest member of a non-empty set of indices
Greatest(S) == CHOOSE i \in S : \A k \in S : k <= i

\* the smallest member of a non-empty set of indices
Smallest(S) == CHOOSE i \in S : \A k \in S : i <= k

\* expand_template has resolved its template and not yet popped the search path
Resolved == pc \in {"et_create", "et_before", "et_render", "et_unwind", "et_except"}

(* C11: when several directories of the search path hold the requested     *)
(* name, resolution returns the file in the one pushed last; it fails with *)
(* template-not-found only when no directory of the search path holds it.  *)
C11_LatestPushedFirst ==
    /\ Resolved =>
          LET holding == Holding(template_prefix_path, et.template_name)
          IN  /\ holding # {}
              /\ et.template_path =
                     template_prefix_path[Greatest(holding)] \o et.template_name
    /\ (pc = "et_done" /\ et.exc = "TemplateNotFound") =>
          Holding(template_prefix_path, et.template_name) = {}

\* What lines 150-153 do: the list is walked from its first entry, so the
\* directory pushed first wins; the not-found part is as claimed.
C11_FirstPushedFirst ==
    /\ Resolved =>
          LET holding == Holding(template_prefix_path, et.template_name)
          IN  /\ holding # {}
              /\ et.template_path =
                     template_prefix_path[Smallest(holding)] \o et.template_name
    /\ (pc = "et_done" /\ et.exc = "TemplateNotFound") =>
          Holding(template_prefix_path, et.template_name) = {}

\* a name held by two directories of the search path has been resolved
C11_TwoHolding ==
    /\ Resolved
    /\ Cardinality(Holding(template_prefix_path, et.template_name)) = 2

\* the engine is rendering, or an exception is on its way out of the includes
Rendering == pc \in {"et_render", "et_unwind"}

(* C12: every call of the nested-include callable pushes an entry onto the *)
(* search path when it starts rendering the nested template and pops it    *)
(* when it returns or raises, so during rendering the search path has      *)
(* grown by one entry per active expansion: the top-level one and each     *)
(* active include.                                                         *)
C12_DepthIsNesting ==
    Rendering => Len(template_prefix_path) = Len(et.stack0) + 1 + Len(inc)

\* What lines 249-269 do: _expand_template leaves the search path alone, so
\* during rendering it is the path at entry plus the one base directory of the
\* top-level call, however deep the includes are.
C12_DepthIsOne ==
    Rendering => template_prefix_path = Append(et.stack0, et.template_basepath)

\* two includes are active
C12_TwoDeep == Rendering /\ Len(inc) = 2

\* the call that is ending created an engine (lines 176-195 were reached)
EngineCreated == et.exc # "TemplateNotFound"

(* C13: every engine created by an expand_template call has been shut down *)
(* when that call exits, whether rendering succeeded or raised.            *)
C13_EngineShutDown ==
    (pc = "et_done" /\ EngineCreated) => engines[interpreter] = "shutdown"

\* What lines 211-221 do: the shutdown of line 221 follows the try statement, so
\* it is reached exactly by the calls whose rendering did not raise; an engine
\* whose rendering raised stays live, referenced by the global.
C13_ShutDownUnlessRenderRaised ==
    (pc = "et_done" /\ EngineCreated) =>
        (engines[interpreter] = "shutdown" <=> et.exc \notin RenderExceptions)

\* a call whose rendering raised inside an include is exiting
C13_RaisedInInclude ==
    /\ pc = "et_done"
    /\ et.exc = "RenderError"
    /\ Len(log) > 1

\* The nesting depth after the events ev of a rendering that starts in a template
\* of depth d, None if they are not properly nested: a render step belongs to the
\* innermost open template, beforeInclude opens a template one level deeper,
\* afterInclude closes the innermost include.
RECURSIVE DepthAfter(_, _)
DepthAfter(ev, d) ==
    IF d = None \/ ev = <<>> THEN d
    ELSE LET e == Head(ev)
         IN  IF e.name = "render" /\ e.depth = d THEN DepthAfter(Tail(ev), d)
             ELSE IF e.name = "beforeInclude" /\ e.depth = d + 1
                  THEN DepthAfter(Tail(ev), d + 1)
             ELSE IF e.name = "afterInclude" /\ e.depth = d /\ d > 1
                  THEN DepthAfter(Tail(ev), d - 1)
             ELSE None

\* what follows the rendering in a call that returns
AfterRendering ==
    IF et.post_process_callback = "None"
    THEN <<Event("shutdown", 0), Event("write_decision", 0)>>
    ELSE <<Event("shutdown", 0), Event("post_process", 0), Event("write_decision", 0)>>

\* the includes the exception of the ending call passed through
IncludesRaised == Cardinality({i \in 1..Len(log) : log[i].kind = "include"})

(* C14: in a call that returns normally the events are, in this order, the *)
(* beforeFile hook, the rendering of the top-level template with every     *)
(* include's beforeInclude, rendering and afterInclude properly nested     *)
(* inside the rendering of the template that invoked it, the afterFile     *)
(* hook, the engine shutdown, the post-processing and the write decision;  *)
(* in a call whose rendering raised there is no afterFile, and no          *)
(* afterInclude for any include the exception passed through.              *)
C14_EventOrder ==
    /\ (pc = "et_done" /\ et.exc = "none") =>
          LET n == Len(events)
              k == Len(AfterRendering)
          IN  /\ n >= k + 2
              /\ events[1] = Event("beforeFile", 1)
              /\ DepthAfter(SubSeq(events, 2, n - k - 1), 1) = 1
              /\ events[n - k] = Event("afterFile", 1)
              /\ SubSeq(events, n - k + 1, n) = AfterRendering
    /\ (pc = "et_done" /\ et.exc \in RenderExceptions) =>
          /\ events # <<>>
          /\ events[1] = Event("beforeFile", 1)
          /\ DepthAfter(Tail(events), 1) = 1 + IncludesRaised

\* a call with a callback returns after a rendering with includes two deep
C14_Witness ==
    /\ pc = "et_done"
    /\ et.exc = "none"
    /\ et.post_process_callback = "trailer"
    /\ \E i \in 1..Len(events) : events[i] = Event("afterInclude", 3)
    /\ \E i \in 1..Len(events) : events[i] = Event("render", 1) /\ i > 4

\* an exception has passed through two nested includes
C14_RaiseWitness ==
    /\ pc = "et_done"
    /\ et.exc = "RenderError"
    /\ IncludesRaised = 2
    /\ \E i \in 1..Len(events) : events[i] = Event("render", 2)

-----------------------------------------------------------------------------
(* Claims about the context mappings and the rebuild, checked under SpecGen *)

(* C15: when expand_template exits, returning or raising, the mapping its   *)
(* caller passed has exactly the keys and values it had at the call, no     *)
(* TEMPLATE entry among them; and when generate_files exits the caller's    *)
(* additional_context is what it was at the call.                           *)
C15_ContextUntouched ==
    /\ pc = "et_done" =>
          /\ et.callerData = et.data0
          /\ "TEMPLATE" \notin DOMAIN et.callerData
    /\ pc = "gf_done" => gf.additional_context = gf.input.additional_context

\* an expansion with an additional context given is raising, after the engine
\* was handed the extended copy
C15_Witness ==
    /\ pc = "et_done"
    /\ et.exc = "CallbackError"
    /\ gf.input.additional_context.given
    /\ "extra" \in DOMAIN et.callerData
    /\ "TEMPLATE" \in DOMAIN et.data

\* the staleness cutoff of the running generate_files call
Cutoff == gf.latest_target_timestamp

C16_RewriteWitness ==
    /\ pc = "et_done"
    /\ et.caller = "gf"
    /\ gf.repeat = "after_return"
    /\ Cutoff # None
    /\ et.output_file \in DOMAIN et.fs0
    /\ et.fs0[et.output_file] = [content |-> et.content, mtime |-> Cutoff]
    /\ et.wrote

-----------------------------------------------------------------------------
(* Claims about which file is rendered *)

\* a direct call with a base directory that holds the template has resolved
GivenBaseHolds ==
    /\ et.active
    /\ et.caller = "top"
    /\ pc # "et_resolve"
    /\ et.args[2] # NoPath
    /\ TemplateExists(et.template_basepath \o et.template_name)

(* C17: a top-level call given a base directory B that holds the template   *)
(* name renders B/name, whatever calls were made before it in the process,  *)
(* failed ones included. Checked under Spec.                                *)
C17_RendersFromGivenBase ==
    GivenBaseHolds => et.template_path = et.template_basepath \o et.template_name

\* The call does render B/name when it finds the search path empty, that is
\* when no call before it has left an entry behind.
C17_RendersFromGivenBase_CleanPath ==
    (GivenBaseHolds /\ et.stack0 = <<>>) =>
        et.template_path = et.template_basepath \o et.template_name

\* an expansion made by generate_files has gone through its resolution
GenExpansionResolved == et.active /\ et.caller = "gf" /\ pc # "et_resolve"

\* the mapping key the running expansion was made for
CurrentKey == gf.input.mapping[gf.j].key

(* C18: in a run of generate_files whose template validation passed, no     *)
(* expansion fails with template-not-found, and the file each expansion     *)
(* renders is the file the validation looked at, template_dir / key, for    *)
(* keys with a directory part too. Checked under SpecGen.                   *)
C18_ValidatedIsRendered ==
    GenExpansionResolved =>
        /\ et.exc # "TemplateNotFound"
        /\ et.template_path = gf.input.args.template_dir \o CurrentKey

\* For the keys that are plain file names the validated file is the rendered
\* one: only os.path.basename of line 132 comes between the two.
C18_ValidatedIsRendered_PlainKeys ==
    (GenExpansionResolved /\ Len(CurrentKey) = 1) =>
        /\ et.exc # "TemplateNotFound"
        /\ et.template_path = gf.input.args.template_dir \o CurrentKey

\* an expansion for a key with a directory part renders another file than the
\* one validated
C18_OtherFileRendered ==
    /\ GenExpansionResolved
    /\ pc = "et_done"
    /\ et.exc = "none"
    /\ et.template_path # gf.input.args.template_dir \o CurrentKey

====
